---- MODULE Spec2Model ----
(***************************************************************************)
(* Model of fia-regulations-scaping.py: the article segmenter              *)
(* (parse_regulations), the article locator (find_tyre_article_id), the    *)
(* field extractor (extract_tyre_data, text_to_int) and the module-level   *)
(* loop that fills full_database and writes it once.                       *)
(*                                                                         *)
(* Python strings are TLA+ strings; TLC evaluates Len, SubSeq and \o on    *)
(* them, so a character is a string of length one and every regular        *)
(* expression of the source is computed character by character.  Inputs    *)
(* are ASCII.                                                              *)
(***************************************************************************)
EXTENDS Integers, Sequences, FiniteSets, TLC

VARIABLES
    pc,               \* position of the module-level code (lines 134-158)
    year_idx,         \* index in REGULATION_FILES of the document of the loop
    pdf,              \* page.extract_text() results of the open document so far
    articles,         \* parse_regulations: local `articles`
    current_article,  \* parse_regulations: local `current_article`
    regs,             \* line 138: value returned by parse_regulations
    tyre_id,          \* line 139: value returned by find_tyre_article_id
    full_database,    \* line 134
    out,              \* what the program printed, as a sequence of messages
    file,             \* what was dumped in f1_tyre_constraints.json
    writes,           \* number of json.dump calls made
    fn,               \* stand-alone call of one function: its name
    arg,              \* ... its argument
    ret,              \* ... its result
    calls             \* ... how many times it was called on arg

vars == <<pc, year_idx, pdf, articles, current_article, regs, tyre_id,
          full_database, out, file, writes, fn, arg, ret, calls>>

pipeline_vars == <<pc, year_idx, pdf, articles, current_article, regs, tyre_id,
                   full_database, out, file, writes>>

call_vars == <<fn, arg, ret, calls>>

-----------------------------------------------------------------------------
(* Bounds of the model.                                                    *)

\* number of entries of REGULATION_FILES that are processed (the last ones)
NumYears == 2

\* number of pages a document has at most
MaxPages == 3

\* number of articles of a collection handed to a stand-alone locator call
MaxArticles == 3

\* number of times a stand-alone call is repeated on the same argument
MaxCalls == 2

-----------------------------------------------------------------------------
(* Python values.                                                          *)

\* Python's None.  No article key, read by the regexes of line 39 and 42,
\* is this string.
None == "<None>"

\* truth value of a str-or-None (lines 51, 58, 64, 141)
Truthy(v) == v # None /\ v # ""

\* the element of a one-element set.  Only({e(x) : x \in {a}}) is e(a) with
\* a evaluated once, as Python evaluates an argument before the call
Only(S) == CHOOSE x \in S : TRUE

Min(S) == CHOOSE x \in S : \A y \in S : x <= y

\* the least index of a set of indices, 0 for the empty set
FirstIndex(S) == IF S = {} THEN 0 ELSE Min(S)

\* s[i], 1-based
Ch(s, i) == SubSeq(s, i, i)

\* A dict is the sequence of its <<key, value>> items in insertion order.
EmptyDict == <<>>

DictKeys(d) == {d[i][1] : i \in 1..Len(d)}

DictHas(d, k) == \E i \in 1..Len(d) : d[i][1] = k

DictGet(d, k) == d[CHOOSE i \in 1..Len(d) : d[i][1] = k][2]

\* d[k] = v: a new key goes last, an existing key keeps its place
DictSet(d, k, v) ==
    IF DictHas(d, k)
    THEN [i \in 1..Len(d) |-> IF d[i][1] = k THEN <<k, v>> ELSE d[i]]
    ELSE Append(d, <<k, v>>)

UPPERCASE == "ABCDEFGHIJKLMNOPQRSTUVWXYZ"
LOWERCASE == "abcdefghijklmnopqrstuvwxyz"
DIGITS == "0123456789"

UpperChars == {Ch(UPPERCASE, i) : i \in 1..26}
LowerChars == {Ch(LOWERCASE, i) : i \in 1..26}
DigitChars == {Ch(DIGITS, i) : i \in 1..10}

\* \d, \w and \s on ASCII text
IsDigit(c) == c \in DigitChars
IsWord(c) == c \in UpperChars \cup LowerChars \cup DigitChars \cup {"_"}
IsSpace(c) == c \in {" ", "\n", "\t", "\r"}

LowerOf ==
    [c \in UpperChars |-> Ch(LOWERCASE, CHOOSE i \in 1..26 : Ch(UPPERCASE, i) = c)]

LowerChar(c) == IF c \in UpperChars THEN LowerOf[c] ELSE c

\* str.lower()
RECURSIVE Lower(_)
RECURSIVE LowerHalves(_, _)
Lower(s) == Only({LowerHalves(x, Len(x) \div 2) : x \in {s}})

\* the two halves of x, cut after h characters, lower-cased
LowerHalves(x, h) ==
    IF Len(x) = 0 THEN ""
    ELSE IF Len(x) = 1 THEN LowerChar(x)
    ELSE Lower(SubSeq(x, 1, h)) \o Lower(SubSeq(x, h + 1, Len(x)))

\* re.sub(r"[()]", "", text)
RECURSIVE StripParens(_)
RECURSIVE StripHalves(_, _)
StripParens(s) == Only({StripHalves(x, Len(x) \div 2) : x \in {s}})

\* the two halves of x, cut after h characters, without their brackets
StripHalves(x, h) ==
    IF Len(x) = 0 THEN ""
    ELSE IF Len(x) = 1 THEN (IF x \in {"(", ")"} THEN "" ELSE x)
    ELSE StripParens(SubSeq(x, 1, h)) \o StripParens(SubSeq(x, h + 1, Len(x)))

\* str(n) for n >= 0
RECURSIVE Str(_)
Str(n) == IF n < 10 THEN Ch(DIGITS, n + 1)
          ELSE Str(n \div 10) \o Ch(DIGITS, (n % 10) + 1)

\* k in s
Contains(s, k) ==
    \E i \in 1..(Len(s) - Len(k) + 1) : SubSeq(s, i, i + Len(k) - 1) = k

\* the index of the first "\n" of s, 0 if there is none
FirstNewline(s) == FirstIndex({i \in 1..Len(s) : Ch(s, i) = "\n"})

\* text.split("\n")
RECURSIVE Split(_)
RECURSIVE SplitAt(_, _)
Split(s) == SplitAt(s, FirstNewline(s))

SplitAt(s, n) ==
    IF n = 0 THEN <<s>>
    ELSE <<SubSeq(s, 1, n - 1)>> \o Split(SubSeq(s, n + 1, Len(s)))

-----------------------------------------------------------------------------
(* Regular expressions.  A matcher takes the text and the 1-based index    *)
(* where it starts and gives the index that follows what it matched, or 0  *)
(* when it does not match; a start of 0 is a failure handed on.            *)

\* an optional part, or the first of two alternatives that matches
Or0(a, b) == Only({IF x # 0 THEN x ELSE b : x \in {a}})

\* a literal; under re.IGNORECASE the pattern's letters match either case
LitAt(s, j, lit, ignorecase) ==
    IF j = 0 \/ j + Len(lit) - 1 > Len(s) THEN 0
    ELSE IF SubSeq(s, j, j + Len(lit) - 1) = lit THEN j + Len(lit)
    ELSE IF ignorecase /\ LowerChar(Ch(s, j)) = LowerChar(Ch(lit, 1))
                       /\ Lower(SubSeq(s, j, j + Len(lit) - 1)) = Lower(lit)
         THEN j + Len(lit) ELSE 0

Lit(s, i, lit, ignorecase) == Only({LitAt(s, j, lit, ignorecase) : j \in {i}})

\* membership of a character in the class \d, \w or \s
InClass(cls, c) ==
    CASE cls = "d" -> IsDigit(c)
      [] cls = "w" -> IsWord(c)
      [] cls = "s" -> IsSpace(c)

\* the index after the longest run of characters of a class from i on
RECURSIVE RunEnd(_, _, _)
RunEnd(s, i, cls) ==
    IF i > Len(s) THEN i
    ELSE IF InClass(cls, Ch(s, i)) THEN RunEnd(s, i + 1, cls) ELSE i

\* X*: greedy; every use is followed by a character outside the class,
\* so the longest run is the only one the backtracking can keep
Star(s, i, cls) == Only({IF j = 0 THEN 0 ELSE RunEnd(s, j, cls) : j \in {i}})

\* a run from i to e that must not be empty
NonEmpty(i, e) == Only({IF f = i THEN 0 ELSE f : f \in {e}})

\* X+
Plus(s, i, cls) ==
    Only({IF j = 0 THEN 0 ELSE NonEmpty(j, RunEnd(s, j, cls)) : j \in {i}})

\* [A-Z]: under re.IGNORECASE the class matches the lower-case letters too
RangeAZ(s, i, ignorecase) ==
    IF i = 0 \/ i > Len(s) THEN 0
    ELSE IF Ch(s, i) \in UpperChars \/ (ignorecase /\ Ch(s, i) \in LowerChars)
         THEN i + 1 ELSE 0

\* [\.\)]
DotOrParen(s, i) ==
    IF i = 0 \/ i > Len(s) THEN 0
    ELSE IF Ch(s, i) \in {".", ")"} THEN i + 1 ELSE 0

-----------------------------------------------------------------------------
(* text_to_int, lines 17-28                                                *)

mapping ==
    <<  <<"one", 1>>, <<"two", 2>>, <<"three", 3>>, <<"four", 4>>,
        <<"five", 5>>, <<"six", 6>>, <<"seven", 7>>, <<"eight", 8>>,
        <<"nine", 9>>, <<"ten", 10>>, <<"eleven", 11>>, <<"twelve", 12>>,
        <<"thirteen", 13>>, <<"fourteen", 14>>,
        <<"1", 1>>, <<"2", 2>>, <<"3", 3>>, <<"4", 4>>, <<"5", 5>>,
        <<"8", 8>>, <<"12", 12>>, <<"13", 13>>  >>

\* mapping.get(clean_text, 0)
MappingGet(clean_text) ==
    Only({IF DictHas(mapping, k) THEN DictGet(mapping, k) ELSE 0 : k \in {clean_text}})

\* text_to_int without the re.sub of line 27
text_to_int_keeps_brackets(text) == MappingGet(Lower(text))

text_to_int(text) == MappingGet(Lower(StripParens(text)))

-----------------------------------------------------------------------------
(* parse_regulations, lines 33-70.  A match of the heading pattern is      *)
(* <<matched, group 1, group 2>>, an unset group being None.               *)

\* re.IGNORECASE, the flag of the re.match call of line 54
MATCH_FLAG_IGNORECASE == TRUE

NoHeading == <<FALSE, None, None>>

\* group 1 is line[b..e-1] when the match ended at e
Group1(line, b, e) ==
    IF e = 0 THEN NoHeading ELSE <<TRUE, SubSeq(line, b, e - 1), None>>

\* group 2 is line[b..e-1] when the whole alternative ended at z
Group2(line, b, e, z) ==
    IF z = 0 THEN NoHeading ELSE <<TRUE, None, SubSeq(line, b, e - 1)>>

\* g|h, and (?:g)?h: the first way that matches
FirstGroups(g, h) == IF g[1] THEN g ELSE h

\* line 39: (?:\.\d+)? after a code that ended at n
Fraction(line, n) == Or0(Plus(line, Lit(line, n, ".", FALSE), "d"), n)

\* line 39: (B\d+(?:\.\d+)?) from index b on
SectionAt(line, b, ignorecase) ==
    Group1(line, b, Fraction(line, Plus(line, Lit(line, b, "B", ignorecase), "d")))

\* line 39: (?:ARTICLE\s+)?(B\d+(?:\.\d+)?) from index a on
SectionedFrom(line, a, ignorecase) ==
    FirstGroups(SectionAt(line, Plus(line, Lit(line, a, "ARTICLE", ignorecase), "s"),
                          ignorecase),
                SectionAt(line, a, ignorecase))

\* line 39: ^\s*(?:ARTICLE\s+)?(B\d+(?:\.\d+)?)
SectionedGroups(line, ignorecase) ==
    SectionedFrom(line, Star(line, 1, "s"), ignorecase)

\* line 42: (\d+) from index d on, as group 1
ArticleDigits(line, d) == Group1(line, d, Plus(line, d, "d"))

\* line 42: ARTICLE\s+(\d+) from index a on
ArticleNumber(line, a, ignorecase) ==
    ArticleDigits(line, Plus(line, Lit(line, a, "ARTICLE", ignorecase), "s"))

\* line 42: [\.\)]\s+[A-Z] after the digits line[a..e-1], which are group 2
TitleAfter(line, a, e, ignorecase) ==
    Group2(line, a, e,
           RangeAZ(line, Plus(line, DotOrParen(line, e), "s"), ignorecase))

\* line 42: (\d+)[\.\)]\s+[A-Z] from index a on
NumberedTitle(line, a, ignorecase) ==
    TitleAfter(line, a, Plus(line, a, "d"), ignorecase)

\* line 42: (?:ARTICLE\s+(\d+)|(\d+)[\.\)]\s+[A-Z]) from index a on
NumericFrom(line, a, ignorecase) ==
    FirstGroups(ArticleNumber(line, a, ignorecase), NumberedTitle(line, a, ignorecase))

\* line 42: ^\s*(?:ARTICLE\s+(\d+)|(\d+)[\.\)]\s+[A-Z])
NumericGroups(line, ignorecase) ==
    NumericFrom(line, Star(line, 1, "s"), ignorecase)

\* lines 37-42 and 54: re.match(article_pattern, line, re.IGNORECASE)
MatchHeading(year, line) ==
    IF year = 2026
    THEN SectionedGroups(line, MATCH_FLAG_IGNORECASE)
    ELSE NumericGroups(line, MATCH_FLAG_IGNORECASE)

\* articles[key] += line + "\n", with articles[key] = "" first for a new key
AppendLine(articles_dict, key, line) ==
    DictSet(articles_dict, key,
            (IF DictHas(articles_dict, key) THEN DictGet(articles_dict, key) ELSE "")
            \o line \o "\n")

\* lines 56-65 with `else` for `elif current_article` and the key created
\* on demand: a line met before any heading is kept, under the key None
ApplyMatchKeepsPreamble(st, line, matched, new_key) ==
    IF matched
    THEN IF Truthy(new_key) THEN <<AppendLine(st[1], new_key, line), new_key>>
         ELSE st
    ELSE <<AppendLine(st[1], st[2], line), st[2]>>

\* lines 56-65 without the test of line 60: a heading whose key is known
\* already starts the article's text again
ApplyMatchOverwrites(st, line, matched, new_key) ==
    IF matched
    THEN IF Truthy(new_key) THEN <<DictSet(st[1], new_key, line \o "\n"), new_key>>
         ELSE st
    ELSE IF Truthy(st[2]) THEN <<AppendLine(st[1], st[2], line), st[2]>>
         ELSE st

\* lines 56-65: st is <<articles, current_article>>
ApplyMatch(st, line, matched, new_key) ==
    IF matched
    THEN IF Truthy(new_key) THEN <<AppendLine(st[1], new_key, line), new_key>>
         ELSE st
    ELSE IF Truthy(st[2]) THEN <<AppendLine(st[1], st[2], line), st[2]>>
         ELSE st

\* line 57
NewKey(match) == IF Truthy(match[2]) THEN match[2] ELSE match[3]

\* lines 54-57 with a match object
ParseMatched(st, line, match) == ApplyMatch(st, line, match[1], NewKey(match))

\* lines 54-65: one line of a page
ParseLine(st, year, line) == ParseMatched(st, line, MatchHeading(year, line))

\* line 53: the lines of a page, in order
RECURSIVE ParseLines(_, _, _)
ParseLines(st, year, lines) ==
    IF lines = <<>> THEN st
    ELSE Only({ParseLines(next, year, Tail(lines)) :
                 next \in {ParseLine(st, year, Head(lines))}})

\* lines 50-65: one page; a page without text is skipped
ParsePage(st, year, text) ==
    IF ~Truthy(text) THEN st ELSE ParseLines(st, year, Split(text))

-----------------------------------------------------------------------------
(* find_tyre_article_id, lines 75-81                                       *)

keywords == <<"supply of tyres", "quantity of tyres", "use of tyres">>

\* line 78: the slice content[:1000]
HEADER_CHARS == 1000

\* content[:n]
Slice(content, n) == SubSeq(content, 1, IF Len(content) < n THEN Len(content) ELSE n)

\* line 79: any(k in header for k in keywords)
AnyKeyword(header) == \E k \in 1..Len(keywords) : Contains(header, keywords[k])

\* line 78 without the slice: the whole text is searched
ArticleMatchesWholeText(content) == AnyKeyword(Lower(content))

\* lines 78-79
ArticleMatches(content) ==
    \E header \in {Lower(Slice(content, HEADER_CHARS))} : AnyKeyword(header)

\* lines 77-81: the items in dict order from item i on
RECURSIVE FindFrom(_, _)
FindFrom(articles_dict, i) ==
    IF i > Len(articles_dict) THEN None
    ELSE IF ArticleMatches(articles_dict[i][2]) THEN articles_dict[i][1]
    ELSE FindFrom(articles_dict, i + 1)

find_tyre_article_id(articles_dict) == FindFrom(articles_dict, 1)

-----------------------------------------------------------------------------
(* extract_tyre_data, lines 86-129.  Every search has re.IGNORECASE: the   *)
(* patterns, written in lower case here, are matched on the lower-cased    *)
(* text t, whose indices are those of the text, and a group is cut out of  *)
(* the text itself.  re.DOTALL lets .*? run over newlines; \s matches a    *)
(* newline with or without it.  A match is <<end, group start, group end>>.*)

NoMatch == <<0, 0, 0>>

\* words[1]\s+words[2]\s+...words[n] from index i on
RECURSIVE Phrase(_, _, _)
Phrase(t, i, words) ==
    Only({IF Len(words) = 1 \/ j = 0 THEN j
          ELSE Phrase(t, Plus(t, j, "s"), Tail(words)) :
             j \in {Lit(t, i, words[1], FALSE)}})

\* \s+<last> from index w on
Closing(t, w, last) == Lit(t, Plus(t, w, "s"), last, FALSE)

\* \s*\(\d+\) from index w on
Bracketed(t, w) ==
    Lit(t, Plus(t, Lit(t, Star(t, w, "s"), "(", FALSE), "d"), ")", FALSE)

\* (?:\s*\(\d+\))?\s+<last> (the bracketed number only where the pattern
\* has it), after the group t[i..w-1]
ValueEnd(i, w, e) == Only({IF f = 0 THEN NoMatch ELSE <<f, i, w>> : f \in {e}})

ValueAfter(t, i, w, last, bracket) ==
    Only({ValueEnd(i, v, IF bracket
                         THEN Or0(Closing(t, Bracketed(t, v), last), Closing(t, v, last))
                         ELSE Closing(t, v, last)) : v \in {w}})

\* (\w+|\d+)(?:\s*\(\d+\))?\s+<last> from index i on.  \w+ takes the whole
\* run of word characters from i on: what follows it is a space or "(".
\* \d+ is never reached: \w+ matches wherever it would.
ValueThen(t, i, last, bracket) ==
    Only({ValueAfter(t, j, Plus(t, j, "w"), last, bracket) : j \in {i}})

\* line 95 at index i
UsageAt(t, i) ==
    ValueThen(t, Plus(t, Phrase(t, i, <<"must", "use", "at", "least">>), "s"),
              "different", TRUE)

\* line 106 (strategy A) at index i
AllocAAt(t, i) ==
    ValueThen(t, Plus(t, Lit(t, i, "allocated", FALSE), "s"), "sets", TRUE)

\* line 107 (strategy B) at index i
AllocBAt(t, i) ==
    ValueThen(t, Plus(t, Phrase(t, i, <<"use", "no", "more", "than">>), "s"),
              "sets", FALSE)

\* line 108: .*?(\w+|\d+)(?:\s*\(\d+\))?\s+sets from index j on: the lazy
\* .*? stops at the first index from which the rest matches
LazyFrom(t, q) ==
    IF q = 0 THEN NoMatch
    ELSE ValueThen(t, FirstIndex({j \in q..Len(t) :
                                    ValueThen(t, j, "sets", TRUE) # NoMatch}),
                   "sets", TRUE)

LazyValue(t, p) == Only({LazyFrom(t, q) : q \in {p}})

\* line 108 (strategy C) at index i
AllocCAt(t, i) == LazyValue(t, Plus(t, Lit(t, i, "allocated", FALSE), "s"))

PatternAt(p, t, i) ==
    CASE p = "usage"  -> UsageAt(t, i)
      [] p = "allocA" -> AllocAAt(t, i)
      [] p = "allocB" -> AllocBAt(t, i)
      [] p = "allocC" -> AllocCAt(t, i)

\* re.search: the match at the leftmost index that has one
Search(p, t) ==
    PatternAt(p, t, FirstIndex({i \in 1..Len(t) : PatternAt(p, t, i) # NoMatch}))

\* match.group(1), None standing for no match
GroupText(text, m) ==
    Only({IF x = NoMatch THEN None ELSE SubSeq(text, x[2], x[3] - 1) : x \in {m}})

\* re.search(p, text, re.IGNORECASE | re.DOTALL) and its group 1
SearchGroup(p, text, t) == GroupText(text, Search(p, t))

\* lines 97-98 and 113-114: the value of a match, 0 without one
GroupValue(g) == Only({IF x # None THEN text_to_int(x) ELSE 0 : x \in {g}})

\* the list of lines 105-109 with strategy B put first
alloc_patterns_b_first == <<"allocB", "allocA", "allocC">>

\* lines 105-109
alloc_patterns == <<"allocA", "allocB", "allocC">>

\* lines 111-117: the loop from pattern k on; gives total_sets_allocated
RECURSIVE AllocLoop(_, _, _)
RECURSIVE AllocStep(_, _, _, _)
AllocLoop(article_text, t, k) ==
    IF k > Len(alloc_patterns) THEN 0
    ELSE AllocStep(GroupValue(SearchGroup(alloc_patterns[k], article_text, t)),
                   article_text, t, k)

\* lines 115-117: a value above zero ends the loop
AllocStep(val, article_text, t, k) ==
    Only({IF v > 0 THEN v ELSE AllocLoop(article_text, t, k + 1) : v \in {val}})

\* the end of the leftmost match of the phrase from index i on; 0 if none
PhraseFrom(t, i, words) ==
    Only({IF k = 0 THEN 0
          ELSE Phrase(t, FirstIndex({j \in k..Len(t) : Phrase(t, j, words) # 0}),
                      words) : k \in {i}})

\* lines 120-121
WetSearch(t) ==
    PhraseFrom(t, 1, <<"unless", "he", "has", "used", "intermediate", "or",
                       "wet-weather", "tyres">>) # 0

\* line 125: during\s+(?:Q2|the\s+second\s+period) somewhere from e on
Q2Period(t, e) ==
    \/ PhraseFrom(t, e, <<"during", "q2">>) # 0
    \/ PhraseFrom(t, e, <<"during", "the", "second", "period">>) # 0

\* lines 125-126: the parts in order, anything between them
Q2Search(t) ==
    Q2Period(t, PhraseFrom(t, PhraseFrom(t, PhraseFrom(t, 1,
                <<"start", "the", "race">>), <<"tyres">>), <<"fastest", "time">>))

\* lines 87-129 with t = article_text.lower()
ExtractWith(article_text, t) ==
    [ mandatory_dry_compounds |-> GroupValue(SearchGroup("usage", article_text, t)),
      total_sets_allocated |-> AllocLoop(article_text, t, 1),
      wet_race_exception |-> WetSearch(t),
      q2_start_tyre_rule |-> Q2Search(t) ]

extract_tyre_data(article_text) ==
    Only({ExtractWith(article_text, t) : t \in {Lower(article_text)}})

-----------------------------------------------------------------------------
(* The module-level code, lines 134-158.                                   *)

\* lines 5-16: the years of REGULATION_FILES in the order of the dict, cut
\* to its last NumYears entries (2026, the sectioned edition, is the last)
REGULATION_FILES == [i \in 1..NumYears |-> 2026 - NumYears + i]

\* the texts page.extract_text() may give: "" stands for a page without
\* extractable text (None or an empty string)
PageTexts ==
    { "",
      "FORMULA ONE\n3) each driver",
      "24. SUPPLY OF TYRES\nARTICLE B6 Use of tyres\nmust use at least two (2) different",
      "allocated thirteen (13) sets\nARTICLE 25 Weighing\nB7.1 Weighing\n24. Again\nB6 again" }

year == REGULATION_FILES[year_idx]

Emit(msg) == Append(out, msg)

Init ==
    /\ pc = "loop"
    /\ year_idx = 1
    /\ pdf = <<>>
    /\ articles = EmptyDict
    /\ current_article = None
    /\ regs = EmptyDict
    /\ tyre_id = None
    /\ full_database = EmptyDict
    /\ out = <<>>
    /\ file = None
    /\ writes = 0
    /\ fn = None /\ arg = None /\ ret = None /\ calls = 0

\* lines 44-45 moved to module level: the collection and the marker of the
\* document before are still there when the next one is opened
OpenDocumentKeepsArticles ==
    /\ pc = "loop"
    /\ year_idx <= Len(REGULATION_FILES)
    /\ out' = Emit(<<"parsing", Str(year)>>)
    /\ pdf' = <<>>
    /\ pc' = "parse"
    /\ UNCHANGED <<year_idx, articles, current_article, regs, tyre_id,
                   full_database, file, writes>>

\* lines 137-138 and 33-48: the loop takes the next document and
\* parse_regulations starts on it
OpenDocument ==
    /\ pc = "loop"
    /\ year_idx <= Len(REGULATION_FILES)
    /\ out' = Emit(<<"parsing", Str(year)>>)
    /\ articles' = EmptyDict
    /\ current_article' = None
    /\ pdf' = <<>>
    /\ pc' = "parse"
    /\ UNCHANGED <<year_idx, regs, tyre_id, full_database, file, writes>>

\* lines 49-65: the next page of the document is read and segmented
ReadPage ==
    /\ pc = "parse"
    /\ Len(pdf) < MaxPages
    /\ \E text \in PageTexts :
          /\ pdf' = Append(pdf, text)
          /\ \E st \in {ParsePage(<<articles, current_article>>, year, text)} :
                articles' = st[1] /\ current_article' = st[2]
    /\ UNCHANGED <<pc, year_idx, regs, tyre_id, full_database, out, file, writes>>

\* lines 66-68 with `return articles` for `return {}`
ReadErrorReturnsPartial ==
    /\ pc = "parse"
    /\ out' = Emit(<<"error", Str(year)>>)
    /\ regs' = articles
    /\ pc' = "locate"
    /\ UNCHANGED <<year_idx, pdf, articles, current_article, tyre_id,
                   full_database, file, writes>>

\* lines 66-68: pdfplumber raises, on open or on any page
ReadError ==
    /\ pc = "parse"
    /\ out' = Emit(<<"error", Str(year)>>)
    /\ regs' = EmptyDict
    /\ pc' = "locate"
    /\ UNCHANGED <<year_idx, pdf, articles, current_article, tyre_id,
                   full_database, file, writes>>

\* lines 49 and 70: the pages are exhausted, parse_regulations returns
EndOfDocument ==
    /\ pc = "parse"
    /\ regs' = articles
    /\ pc' = "locate"
    /\ UNCHANGED <<year_idx, pdf, articles, current_article, tyre_id,
                   full_database, out, file, writes>>

\* line 139
LocateArticle ==
    /\ pc = "locate"
    /\ tyre_id' = find_tyre_article_id(regs)
    /\ pc' = "store"
    /\ UNCHANGED <<year_idx, pdf, articles, current_article, regs,
                   full_database, out, file, writes>>

\* lines 143-144
Constraints(article_text, id) ==
    extract_tyre_data(article_text) @@ [source_article |-> id]

\* lines 141-154 with a record of defaults stored in the else branch too
StoreRecordAlways ==
    /\ pc = "store"
    /\ IF Truthy(tyre_id)
       THEN \E constraints \in {Constraints(DictGet(regs, tyre_id), tyre_id)} :
                /\ full_database' = DictSet(full_database, Str(year), constraints)
                /\ out' = Append(Emit(<<"found", Str(year), tyre_id>>),
                                 IF constraints.total_sets_allocated = 0
                                 THEN <<"warning">>
                                 ELSE <<"extracted", constraints>>)
       ELSE /\ full_database' = DictSet(full_database, Str(year),
                                        Constraints("", tyre_id))
            /\ out' = Emit(<<"not_found", Str(year)>>)
    /\ year_idx' = year_idx + 1
    /\ pc' = "loop"
    /\ UNCHANGED <<pdf, articles, current_article, regs, tyre_id, file, writes>>

\* lines 141-154
StoreRecord ==
    /\ pc = "store"
    /\ IF Truthy(tyre_id)
       THEN \E constraints \in {Constraints(DictGet(regs, tyre_id), tyre_id)} :
                /\ full_database' = DictSet(full_database, Str(year), constraints)
                /\ out' = Append(Emit(<<"found", Str(year), tyre_id>>),
                                 IF constraints.total_sets_allocated = 0
                                 THEN <<"warning">>
                                 ELSE <<"extracted", constraints>>)
       ELSE /\ full_database' = full_database
            /\ out' = Emit(<<"not_found", Str(year)>>)
    /\ year_idx' = year_idx + 1
    /\ pc' = "loop"
    /\ UNCHANGED <<pdf, articles, current_article, regs, tyre_id, file, writes>>

\* lines 157-158 indented into the loop: the database is dumped after each
\* document, the last dump ending the run
SaveDatabaseInLoop ==
    /\ pc = "loop"
    /\ writes < year_idx - 1
    /\ file' = full_database
    /\ writes' = writes + 1
    /\ pc' = IF writes' = Len(REGULATION_FILES) THEN "done" ELSE "loop"
    /\ UNCHANGED <<year_idx, pdf, articles, current_article, regs, tyre_id,
                   full_database, out>>

\* lines 157-158: the loop is over, the database is dumped
SaveDatabase ==
    /\ pc = "loop"
    /\ year_idx > Len(REGULATION_FILES)
    /\ file' = full_database
    /\ writes' = writes + 1
    /\ pc' = "done"
    /\ UNCHANGED <<year_idx, pdf, articles, current_article, regs, tyre_id,
                   full_database, out>>

Next ==
    \/ (OpenDocument /\ UNCHANGED call_vars)
    \/ (ReadPage /\ UNCHANGED call_vars)
    \/ (ReadError /\ UNCHANGED call_vars)
    \/ (EndOfDocument /\ UNCHANGED call_vars)
    \/ (LocateArticle /\ UNCHANGED call_vars)
    \/ (StoreRecord /\ UNCHANGED call_vars)
    \/ (SaveDatabase /\ UNCHANGED call_vars)

Spec == Init /\ [][Next]_vars

-----------------------------------------------------------------------------
(* Stand-alone calls of the pure functions, on arguments drawn from        *)
(* bounded sets.  The module-level variables stay as they start.           *)

\* "x" n times
RECURSIVE Pad(_)
Pad(n) ==
    IF n = 0 THEN ""
    ELSE IF n % 2 = 0 THEN Pad(n \div 2) \o Pad(n \div 2)
    ELSE "x" \o Pad(n - 1)

UpperOf ==
    [c \in LowerChars |-> Ch(UPPERCASE, CHOOSE i \in 1..26 : Ch(LOWERCASE, i) = c)]

\* str.upper()
RECURSIVE Upper(_)
Upper(s) ==
    IF Len(s) = 0 THEN ""
    ELSE IF Len(s) = 1 THEN (IF s \in LowerChars THEN UpperOf[s] ELSE s)
    ELSE LET h == Len(s) \div 2
         IN  Upper(SubSeq(s, 1, h)) \o Upper(SubSeq(s, h + 1, Len(s)))

\* str.capitalize() of a lower-case word
Capitalize(s) == IF s = "" THEN "" ELSE Upper(Ch(s, 1)) \o SubSeq(s, 2, Len(s))

\* tokens in lower case and without brackets: the number words up to
\* fifteen, the digit strings of 0..15, and others
BaseTokens ==
    { "zero", "one", "two", "three", "four", "five", "six", "seven", "eight",
      "nine", "ten", "eleven", "twelve", "thirteen", "fourteen", "fifteen",
      "", "sets", "x_1", "013", "1 3", "thirteen ", "twenty-three" }
    \cup {Str(n) : n \in 0..15}

\* the ways a token is written in a document
Variants(base) ==
    { base, Upper(base), Capitalize(base),
      "(" \o base \o ")", "(" \o Upper(base) \o ")", "(" \o base, base \o ")" }

IntTokens == UNION {Variants(b) : b \in BaseTokens}

\* article texts for the extractor: an allocation sentence of each
\* strategy, or none, in the two orders, and a usage sentence or none
PhrasesA ==
    { "", "allocated thirteen (13) sets", "allocated 13 sets",
      "Allocated 6 sets", "allocated (13) sets", "allocated TWELVE(12) sets" }

PhrasesB ==
    { "", "use no more than eight sets", "use no\nmore than 7 sets",
      "use no more than eleven (11) sets" }

PhrasesC ==
    { "", "allocated to each driver:\nfour (4) sets", "allocated twenty-three sets",
      "allocated.\nFive sets" }

PhrasesU ==
    { "", "must use at least two (2) different" }

Sentence(ph) == IF ph = "" THEN "" ELSE "Each driver is " \o ph \o " of tyres.\n"

ArticleTexts ==
    { "24. SUPPLY OF TYRES\n" \o Sentence(u) \o Sentence(x) \o Sentence(y) \o Sentence(z) :
        u \in PhrasesU, x \in PhrasesA, y \in PhrasesB, z \in PhrasesC }
    \cup
    { "24. SUPPLY OF TYRES\n" \o Sentence(z) \o Sentence(y) \o Sentence(x) :
        x \in PhrasesA, y \in PhrasesB, z \in PhrasesC }

\* the key of the i-th article of a collection: insertion order is not the
\* order of the keys
LocatorKey(i) == Str(40 - i)

\* what follows the heading line "ARTICLE nn\n" (11 characters) of an
\* article: "use of tyres" ends at character 1000, ends at 1001, or starts
\* at 1001; or a keyword is in the first line, in upper or lower case; or
\* there is none
LocatorBodies ==
    { "General provisions\n",
      "SUPPLY OF TYRES\nEach driver\n",
      "the quantity of tyres is free\n",
      "Tyres\n" \o Pad(971) \o "use of tyres\n",
      "Tyres\n" \o Pad(972) \o "use of tyres\n",
      "Tyres\n" \o Pad(983) \o "use of tyres\n" }

LocatorArticle(i, body) == <<LocatorKey(i), "ARTICLE " \o LocatorKey(i) \o "\n" \o body>>

Collections ==
    UNION { { [i \in 1..n |-> LocatorArticle(i, bodies[i])] :
                bodies \in [1..n -> LocatorBodies] } : n \in 0..MaxArticles }

InitCalls ==
    /\ pc = "loop"
    /\ year_idx = 1
    /\ pdf = <<>>
    /\ articles = EmptyDict
    /\ current_article = None
    /\ regs = EmptyDict
    /\ tyre_id = None
    /\ full_database = EmptyDict
    /\ out = <<>>
    /\ file = None
    /\ writes = 0
    /\ ret = None
    /\ calls = 0
    /\ \/ fn = "text_to_int" /\ arg \in IntTokens
       \/ fn = "extract_tyre_data" /\ arg \in ArticleTexts
       \/ fn = "find_tyre_article_id" /\ arg \in Collections

CallTextToInt ==
    /\ fn = "text_to_int"
    /\ calls < MaxCalls
    /\ ret' = text_to_int(arg)
    /\ calls' = calls + 1
    /\ UNCHANGED <<fn, arg>>

CallExtractTyreData ==
    /\ fn = "extract_tyre_data"
    /\ calls < MaxCalls
    /\ ret' = extract_tyre_data(arg)
    /\ calls' = calls + 1
    /\ UNCHANGED <<fn, arg>>

CallFindTyreArticleId ==
    /\ fn = "find_tyre_article_id"
    /\ calls < MaxCalls
    /\ ret' = find_tyre_article_id(arg)
    /\ calls' = calls + 1
    /\ UNCHANGED <<fn, arg>>

NextCalls ==
    \/ (CallTextToInt /\ UNCHANGED pipeline_vars)
    \/ (CallExtractTyreData /\ UNCHANGED pipeline_vars)
    \/ (CallFindTyreArticleId /\ UNCHANGED pipeline_vars)

CallSpec == InitCalls /\ [][NextCalls]_vars

\* the module-level code with its loop and its final write scheduled: the
\* interpreter runs the next statement as long as there is one
LiveSpec == Spec /\ WF_vars(Next)

-----------------------------------------------------------------------------
(* Claims about the stand-alone calls (CallSpec).                          *)

Returned(f) == fn = f /\ calls > 0

\* the dictionary of the normalizer as the specification lists it
ClaimWords ==
    << "one", "two", "three", "four", "five", "six", "seven", "eight", "nine",
       "ten", "eleven", "twelve", "thirteen", "fourteen" >>

ClaimDigits == {1, 2, 3, 4, 5, 8, 12, 13}

ClaimValue(base) ==
    IF \E i \in 1..Len(ClaimWords) : ClaimWords[i] = base
    THEN CHOOSE i \in 1..Len(ClaimWords) : ClaimWords[i] = base
    ELSE IF \E n \in ClaimDigits : Str(n) = base
         THEN CHOOSE n \in ClaimDigits : Str(n) = base
         ELSE 0

\* the article texts whose strategy-A sentence is ph
TextsWithA(ph) ==
    { "24. SUPPLY OF TYRES\n" \o Sentence(u) \o Sentence(ph) \o Sentence(y) \o Sentence(z) :
        u \in PhrasesU, y \in PhrasesB, z \in PhrasesC }
    \cup
    { "24. SUPPLY OF TYRES\n" \o Sentence(z) \o Sentence(y) \o Sentence(ph) :
        y \in PhrasesB, z \in PhrasesC }

\* C8: text_to_int gives, for a token written in any case and with or
\* without brackets, the value the dictionary (one..fourteen, the digit
\* strings 1-5, 8, 12, 13) has for it and 0 for any other token; and the
\* sentences "allocated thirteen (13) sets" and "allocated 13 sets" both
\* make extract_tyre_data give total_sets_allocated = 13.
C8_NormalizerConsistency ==
    /\ Returned("text_to_int") =>
          \A b \in BaseTokens : arg \in Variants(b) => ret = ClaimValue(b)
    /\ Returned("extract_tyre_data") =>
          /\ arg \in TextsWithA("allocated thirteen (13) sets")
                => ret.total_sets_allocated = 13
          /\ arg \in TextsWithA("allocated 13 sets")
                => ret.total_sets_allocated = 13

C8_Witness ==
    /\ Returned("text_to_int")
    /\ arg = "(THIRTEEN)"
    /\ ret = 13

\* the value a strategy has on a text: that of group 1 of the leftmost
\* match of its pattern, 0 when the pattern matches nowhere
StrategyValue(p, text) == GroupValue(SearchGroup(p, text, Lower(text)))

StrategyMatches(p, text) == SearchGroup(p, text, Lower(text)) # None

ClaimOrder == <<"allocA", "allocB", "allocC">>

FirstSuccess(text) ==
    LET ok == {k \in 1..Len(ClaimOrder) : StrategyValue(ClaimOrder[k], text) > 0}
    IN  IF ok = {} THEN 0 ELSE StrategyValue(ClaimOrder[Min(ok)], text)

\* article texts and the total_sets_allocated the program gives for them
AllocationExamples ==
    << <<"24. SUPPLY OF TYRES\n", 0>>,
       <<"24. SUPPLY OF TYRES\n" \o Sentence("Allocated 6 sets")
            \o Sentence("use no more than eight sets"), 8>>,
       <<"24. SUPPLY OF TYRES\n" \o Sentence("use no more than eight sets")
            \o Sentence("allocated 13 sets"), 13>>,
       <<"24. SUPPLY OF TYRES\n" \o Sentence("allocated to each driver:\nfour (4) sets"), 4>>,
       <<"24. SUPPLY OF TYRES\n" \o Sentence("Allocated 6 sets")
            \o Sentence("use no\nmore than 7 sets") \o Sentence("allocated.\nFive sets"), 0>>,
       <<"24. SUPPLY OF TYRES\n" \o Sentence("allocated (13) sets")
            \o Sentence("use no\nmore than 7 sets") \o Sentence("allocated.\nFive sets"), 0>>,
       <<"24. SUPPLY OF TYRES\n" \o Sentence("allocated twenty-three sets"), 3>>,
       <<"24. SUPPLY OF TYRES\n" \o Sentence("use no more than eleven (11) sets"), 0>> >>

\* C3: total_sets_allocated is the value of the first strategy, in the
\* order A, B, C, whose pattern matches with a value above zero; a strategy
\* that matches with the value zero is passed over; the field is 0 when no
\* strategy succeeds.
C3_AllocationOrder ==
    Returned("extract_tyre_data") =>
        /\ ret.total_sets_allocated = FirstSuccess(arg)
        /\ \A e \in 1..Len(AllocationExamples) :
              arg = AllocationExamples[e][1]
                 => ret.total_sets_allocated = AllocationExamples[e][2]

\* strategy A matches with the value zero and strategy B gives the field
C3_Witness ==
    /\ Returned("extract_tyre_data")
    /\ StrategyMatches("allocA", arg)
    /\ StrategyValue("allocA", arg) = 0
    /\ StrategyValue("allocB", arg) > 0
    /\ ret.total_sets_allocated = StrategyValue("allocB", arg)

ClaimKeywords == {"supply of tyres", "quantity of tyres", "use of tyres"}

\* keyword k lies within the first 1000 characters of the text, in any case
KeywordWithin(text, k) ==
    \E p \in 1..(1000 - Len(k) + 1) :
        /\ p + Len(k) - 1 <= Len(text)
        /\ LowerChar(Ch(text, p)) = Ch(k, 1)
        /\ Lower(SubSeq(text, p, p + Len(k) - 1)) = k

Qualifies(text) == \E k \in ClaimKeywords : KeywordWithin(text, k)

ExpectedId(d) ==
    LET q == {i \in 1..Len(d) : Qualifies(d[i][2])}
    IN  IF q = {} THEN None ELSE d[Min(q)][1]

\* C4: find_tyre_article_id gives the key of the first article, in
\* insertion order, with a keyword within its first 1000 characters in any
\* case, and None when there is none; a keyword that starts or ends after
\* character 1000 does not count; every call on a collection gives the same.
C4_LocatorFirstHit ==
    Returned("find_tyre_article_id") =>
        /\ ret = ExpectedId(arg)
        /\ arg = <<LocatorArticle(1, "Tyres\n" \o Pad(983) \o "use of tyres\n")>>
              => ret = None
        /\ arg = <<LocatorArticle(1, "Tyres\n" \o Pad(971) \o "use of tyres\n")>>
              => ret = LocatorKey(1)

\* the first article has its keyword after character 1000, the two after
\* it both qualify, and the second call gives the second article again
C4_Witness ==
    /\ fn = "find_tyre_article_id"
    /\ calls = 2
    /\ Len(arg) = 3
    /\ arg[1] = LocatorArticle(1, "Tyres\n" \o Pad(983) \o "use of tyres\n")
    /\ Qualifies(arg[2][2])
    /\ Qualifies(arg[3][2])
    /\ ret = LocatorKey(2)

-----------------------------------------------------------------------------
(* Claims about the segmenter inside the run (Spec).                       *)

\* the lines of the pages that have text, in document order
RECURSIVE DocLines(_)
DocLines(pages) ==
    IF pages = <<>> THEN <<>>
    ELSE (IF Truthy(Head(pages)) THEN Split(Head(pages)) ELSE <<>>)
         \o DocLines(Tail(pages))

\* the lines of an article text, each of which ends with a newline
TextLines(text) == SubSeq(Split(text), 1, Len(Split(text)) - 1)

\* the lines of all the articles of a collection
RECURSIVE ArticleLines(_)
ArticleLines(d) ==
    IF d = <<>> THEN <<>> ELSE TextLines(Head(d)[2]) \o ArticleLines(Tail(d))

\* the line is a heading for the pattern the year's edition makes active
IsHeadingLine(y, line) == MatchHeading(y, line)[1]

HeadingKey(y, line) == NewKey(MatchHeading(y, line))

\* the index of the first heading among the lines, 0 without one
FirstHeading(y, lines) ==
    FirstIndex({i \in 1..Len(lines) : IsHeadingLine(y, lines[i])})

\* the lines from the first heading onward
FromFirstHeading(y, lines) ==
    IF FirstHeading(y, lines) = 0 THEN <<>>
    ELSE SubSeq(lines, FirstHeading(y, lines), Len(lines))

Occurrences(line, lines) == Cardinality({i \in 1..Len(lines) : lines[i] = line})

\* the last message printed reports a read error: parse_regulations has
\* returned through its except branch
ReadFailed ==
    /\ pc \in {"locate", "store"}
    /\ out # <<>>
    /\ out[Len(out)][1] = "error"

\* parse_regulations has returned the collection it built
Segmented == pc \in {"locate", "store"} /\ ~ReadFailed

\* the numbered heading as the specification words it: only ARTICLE is
\* case-insensitive, the word after the number starts with a capital
ClaimedHeading(line) ==
    FirstGroups(ArticleNumber(line, Star(line, 1, "s"), TRUE),
                NumberedTitle(line, Star(line, 1, "s"), FALSE))[1]

\* C7: in a document of a year other than 2026 every article starts with
\* a line that is "ARTICLE <n>" in any case or "<n>." / "<n>)" followed by
\* a word with a capital first letter: a numbered line whose next word is
\* in lower case opens no article.
C7_CapitalizedTitleOpensArticle ==
    (pc = "parse" /\ year # 2026) =>
        \A i \in 1..Len(articles) :
            ClaimedHeading(Head(TextLines(articles[i][2])))

\* C2: no line before the first heading of a segmented document is in an
\* article: each line is in the articles at most as often as it occurs
\* from the first heading onward, and without a heading there is no article.
C2_NoLineBeforeFirstHeading ==
    Segmented =>
        /\ \A i \in 1..Len(ArticleLines(regs)) :
              Occurrences(ArticleLines(regs)[i], ArticleLines(regs))
                  <= Occurrences(ArticleLines(regs)[i],
                                 FromFirstHeading(year, DocLines(pdf)))
        /\ FirstHeading(year, DocLines(pdf)) = 0 => regs = EmptyDict

\* a segmented document with lines before its first heading, one of which
\* comes again after it
C2_Witness ==
    /\ Segmented
    /\ FirstHeading(year, DocLines(pdf)) > 1
    /\ regs # EmptyDict
    /\ \E i \in 1..Len(DocLines(pdf)) :
          /\ i > FirstHeading(year, DocLines(pdf))
          /\ DocLines(pdf)[i] = DocLines(pdf)[1]

\* the key of the last heading at or before line i, None before the first
OwnerAt(y, lines, i) ==
    IF \A j \in 1..i : ~IsHeadingLine(y, lines[j]) THEN None
    ELSE HeadingKey(y, lines[CHOOSE j \in 1..i :
                                /\ IsHeadingLine(y, lines[j])
                                /\ \A k \in (j + 1)..i : ~IsHeadingLine(y, lines[k])])

\* the lines from i on that key K owns, each followed by a newline
RECURSIVE OwnedText(_, _, _, _)
OwnedText(K, y, lines, i) ==
    IF i > Len(lines) THEN ""
    ELSE (IF OwnerAt(y, lines, i) = K THEN lines[i] \o "\n" ELSE "")
         \o OwnedText(K, y, lines, i + 1)

Owners(y, lines) == {OwnerAt(y, lines, i) : i \in 1..Len(lines)} \ {None}

\* C9: the collection parse_regulations returns has one article for each
\* key that owns a line, its text is the concatenation in document order of
\* the lines the key owns (heading lines included, over page boundaries and
\* pages without text, a repeated key appending), and the articles hold as
\* many lines as the document has from its first heading onward.
C9_ArticleTextIsOwnedLines ==
    Segmented =>
        /\ DictKeys(regs) = Owners(year, DocLines(pdf))
        /\ \A i, j \in 1..Len(regs) : regs[i][1] = regs[j][1] => i = j
        /\ \A i \in 1..Len(regs) :
              regs[i][2] = OwnedText(regs[i][1], year, DocLines(pdf), 1)
        /\ Len(ArticleLines(regs)) = Len(FromFirstHeading(year, DocLines(pdf)))

\* the 2026 document whose article B6 starts on the first page, goes on
\* after a page without text, is left for B7.1 and is taken up again
C9_Witness ==
    /\ Segmented
    /\ year = 2026
    /\ Len(pdf) = 3
    /\ pdf[2] = ""
    /\ DictKeys(regs) = {"B6", "B7.1"}
    /\ DictGet(regs, "B6") =
          "ARTICLE B6 Use of tyres\nmust use at least two (2) different\n"
          \o "allocated thirteen (13) sets\nARTICLE 25 Weighing\nB6 again\n"
    /\ DictGet(regs, "B7.1") = "B7.1 Weighing\n24. Again\n"

-----------------------------------------------------------------------------
(* Claims about the run (Spec, and LiveSpec for what it reaches).          *)

\* a message of the kind was printed for the year
Reported(kind, y) == \E i \in 1..Len(out) : out[i][1] = kind /\ out[i][2] = y

YearKeys == {Str(REGULATION_FILES[i]) : i \in 1..Len(REGULATION_FILES)}

\* the step is the one that ends the handling of a document
StoresRecord == pc = "store" /\ pc' = "loop"

\* C5: after a read error, whatever was segmented before it, the collection
\* returned is empty and the locator finds nothing; the step that follows
\* leaves the database as it was and goes on to the next document; a year
\* whose read error was reported is never a key of the database.
C5_ReadErrorSkipsYear ==
    /\ [](ReadFailed => regs = EmptyDict /\ (pc = "store" => tyre_id = None))
    /\ [](\A y \in YearKeys : Reported("error", y) => ~DictHas(full_database, y))
    /\ [][ReadFailed =>
             /\ full_database' = full_database
             /\ pc = "store" => (pc' = "loop" /\ year_idx' = year_idx + 1)]_vars

\* the second document fails after pages of it were segmented into
\* articles, the first one having put its record in the database
C5_Witness ==
    /\ ReadFailed
    /\ pc = "store"
    /\ year_idx = 2
    /\ pdf # <<>>
    /\ articles # EmptyDict
    /\ DictKeys(full_database) = {Str(REGULATION_FILES[1])}

\* C1: the step that ends a document leaves str(year) in the database if
\* and only if the document was read without error and an article has a
\* keyword in its first 1000 characters; at the end of the run the keys are
\* the years reported found, no year reported as a read error or as not
\* found is a key, and a year warned about is a key with an allocation of 0.
C1_KeyIffLocated ==
    /\ [][StoresRecord =>
             (DictHas(full_database', Str(year))
                 <=> (~ReadFailed /\ ExpectedId(regs) # None))]_vars
    /\ [](pc = "done" =>
             \A y \in YearKeys :
                /\ DictHas(full_database, y) <=> Reported("found", y)
                /\ Reported("error", y) => ~DictHas(full_database, y)
                /\ Reported("not_found", y) => ~DictHas(full_database, y))
    /\ [](\A i \in 1..Len(out) :
             out[i][1] = "warning" =>
                /\ out[i - 1][1] = "found"
                /\ DictHas(full_database, out[i - 1][2])
                /\ DictGet(full_database, out[i - 1][2]).total_sets_allocated = 0)

\* the run is over: the first year was not read, the second was located
\* and its allocation stayed 0
C1_Witness ==
    /\ pc = "done"
    /\ Reported("error", Str(REGULATION_FILES[1]))
    /\ DictKeys(full_database) = {Str(REGULATION_FILES[2])}
    /\ full_database[1][2].total_sets_allocated = 0
    /\ out[Len(out)][1] = "warning"

\* C10: a document is opened with no article and no current article; the
\* articles being built hold no more lines than the document read so far
\* gives them; a step changes no entry of the database but that of the year
\* being handled, which then has the locator's identifier as
\* source_article.
C10_DocumentsIndependent ==
    /\ [][(pc = "loop" /\ pc' = "parse") =>
             (articles' = EmptyDict /\ current_article' = None)]_vars
    /\ [](pc = "parse" =>
             \A i \in 1..Len(ArticleLines(articles)) :
                Occurrences(ArticleLines(articles)[i], ArticleLines(articles))
                    <= Occurrences(ArticleLines(articles)[i], DocLines(pdf)))
    /\ [][/\ \A i \in 1..Len(full_database) :
                /\ i <= Len(full_database')
                /\ full_database'[i] = full_database[i]
          /\ full_database' # full_database =>
                /\ pc = "store"
                /\ full_database' =
                      Append(full_database,
                             <<Str(year), full_database'[Len(full_database')][2]>>)
                /\ full_database'[Len(full_database')][2].source_article = tyre_id
                /\ tyre_id = ExpectedId(regs)]_vars

\* both documents were handled and each has its entry, with the article
\* found in it
C10_Witness ==
    /\ pc = "loop"
    /\ year_idx = 3
    /\ Len(full_database) = 2
    /\ full_database[1][1] = Str(REGULATION_FILES[1])
    /\ full_database[1][2].source_article = "24"
    /\ full_database[2][1] = Str(REGULATION_FILES[2])
    /\ full_database[2][2].source_article = "B6"

\* C6: the run reaches the write step whatever happens to the documents;
\* nothing is written before, and at the write step every document has
\* been handled and the database is written once, as it then is.
C6_WrittenOnceAtTheEnd ==
    /\ <>(pc = "done")
    /\ [](writes <= 1)
    /\ [](pc # "done" => (writes = 0 /\ file = None))
    /\ [](pc = "done" =>
             /\ writes = 1
             /\ file = full_database
             /\ year_idx = Len(REGULATION_FILES) + 1
             /\ \A y \in YearKeys :
                   /\ Reported("parsing", y)
                   /\ Reported("found", y) \/ Reported("not_found", y))

\* the run is over after a read error on the first document and a record
\* for the second
C6_Witness ==
    /\ pc = "done"
    /\ writes = 1
    /\ Reported("error", Str(REGULATION_FILES[1]))
    /\ Reported("not_found", Str(REGULATION_FILES[1]))
    /\ Reported("found", Str(REGULATION_FILES[2]))
    /\ file = full_database
    /\ Len(file) = 1

====
